---- MODULE Spec2Model ----
(***************************************************************************)
(* Model of the CORDIS collection pipeline of web_crawler/cordis_crawler:  *)
(*   ProjectMatcher.find_best_project   (project_matcher.py)               *)
(*   CordisSearcher session handling    (cordis_search.py)                 *)
(*   CordisXMLDownloader                (xml_downloader.py)                *)
(*   CordisXMLCollector batch loop      (cordis_collector.py)              *)
(*   main, the end of a run             (cordis_cli.py)                    *)
(*   CordisRAXKGIntegration             (raxkg_integration.py)             *)
(*                                                                         *)
(* Spec runs a batch, SpecResolve one query over the larger input sets,    *)
(* SpecUnit a single call of download_project_xml, validate_xml_file,      *)
(* _calculate_match_score, get_xml_metadata, import_to_neo4j, the variant  *)
(* list or the scoring loop of find_best_project, on arguments given as    *)
(* text.                                                                   *)
(*                                                                         *)
(* Text is a sequence of one-character strings.  Scores are integers in    *)
(* thousandths (0.90 is 900, 1.0 is 1000).  The fuzzywuzzy similarity      *)
(* values and the outcome of the string tests on title and description are *)
(* carried by each candidate the search provider returns: they are inputs. *)
(***************************************************************************)
EXTENDS Integers, Sequences, FiniteSets, TLC

VARIABLES
    pc,                \* position of the single thread of control
    project_names,     \* the batch handed to collect_and_save_batch
    interactive,       \* CordisXMLCollector.interactive
    delay,             \* delay argument of the batch (0 or positive)
    i,                 \* enumerate index of collect_multiple_projects
    stats,             \* CordisXMLCollector.stats
    results,           \* local list `results` of collect_multiple_projects
    sleeps,            \* indices i after which time.sleep(delay) ran
    metadata_files,    \* batch metadata records written to storage
    batch_return,      \* value returned by collect_and_save_batch
    query,             \* argument of the running find_best_project call
    search_strategies, \* variant list of the running call
    k,                 \* index of the next variant to query
    all_results,       \* scored candidates collected so far
    sorted_results,    \* merged candidates, best first (set after the loop)
    search_calls,      \* variants passed to search_projects in this call
    responses,         \* what each of those searches returned
    prompts,           \* times the interactive chooser ran in this call
    presented,         \* candidates shown by the chooser
    choice,            \* what was typed at the prompt
    project,           \* return value of find_best_project
    driver,            \* CordisSearcher.driver of the running call is set
    open_sessions,     \* browser sessions started and not yet quit
    sessions_started,  \* browser sessions started by the running call
    files,             \* storage directory: project id -> persisted body
    downloads,         \* log of download_project_xml calls
    error,             \* exception that left the batch, or "none"
    fixture,           \* which inputs the run draws from: "all", "core", "unit"
    matcher,           \* the configuration ProjectMatcher.__init__ stored
    collect_only,      \* args.collect_only of cordis_cli.main
    exit_status,       \* exit status of the process, << >> while it runs
    printed,           \* final messages main has printed
    processes,         \* log of the external build and import processes run
    archive,           \* source_xml directory of the graph database version
    pipeline_return,   \* what collect_and_build_graph returned
    unit_call,         \* a single method call under test and its arguments
    unit_return        \* what that call returned and did

vars == << pc, project_names, interactive, delay, i, stats, results, sleeps,
           metadata_files, batch_return, query, search_strategies, k,
           all_results, sorted_results, search_calls, responses, prompts, presented, choice,
           project, driver, open_sessions, sessions_started, files,
           downloads, error, fixture, matcher, collect_only, exit_status, printed,
           processes, archive, pipeline_return,
           unit_call, unit_return >>

\* Largest batch handed to the collector.
MaxBatch == 2

----------------------------------------------------------------------------
(* Text helpers *)

LowerLetters == << "a", "b", "c", "d" >>
UpperLetters == << "A", "B", "C", "D" >>

IsLower(c) == \E n \in 1..Len(LowerLetters) : LowerLetters[n] = c
IsUpper(c) == \E n \in 1..Len(UpperLetters) : UpperLetters[n] = c
IsAlphaChar(c) == IsLower(c) \/ IsUpper(c)
IsSpace(c) == c = " "

\* str.upper() on one character
UpperChar(c) ==
    IF IsLower(c)
    THEN UpperLetters[CHOOSE n \in 1..Len(LowerLetters) : LowerLetters[n] = c]
    ELSE c

\* str.upper()
upper(text) == [n \in 1..Len(text) |-> UpperChar(text[n])]

\* str.isalpha(): non-empty and every character alphabetic
isalpha(text) == Len(text) > 0 /\ \A n \in 1..Len(text) : IsAlphaChar(text[n])

\* str.split(): the maximal runs of non-whitespace characters, in order
RECURSIVE SplitFrom(_, _, _)
SplitFrom(text, n, word) ==
    IF n > Len(text)
    THEN IF word = << >> THEN << >> ELSE << word >>
    ELSE IF IsSpace(text[n])
         THEN (IF word = << >> THEN << >> ELSE << word >>)
              \o SplitFrom(text, n + 1, << >>)
         ELSE SplitFrom(text, n + 1, Append(word, text[n]))

split(text) == SplitFrom(text, 1, << >>)

\* str.strip()
RECURSIVE strip(_)
strip(text) ==
    IF text = << >> THEN << >>
    ELSE IF IsSpace(Head(text)) THEN strip(Tail(text))
    ELSE IF IsSpace(text[Len(text)]) THEN strip(SubSeq(text, 1, Len(text) - 1))
    ELSE text

Min(a, b) == IF a < b THEN a ELSE b

\* Optional[str]: << >> is None, << s >> is the string s
NoneStr == << >>
Some(s) == << s >>

\* variant of FirstLetters: every word gives its first letter
RECURSIVE FirstLettersOfAllWords(_)
FirstLettersOfAllWords(words) ==
    IF words = << >> THEN << >>
    ELSE << UpperChar(Head(words)[1]) >> \o FirstLettersOfAllWords(Tail(words))

RECURSIVE FirstLetters(_)
FirstLetters(words) ==
    IF words = << >> THEN << >>
    ELSE (IF isalpha(Head(words)) /\ Len(Head(words)) > 2
          THEN << UpperChar(Head(words)[1]) >> ELSE << >>)
         \o FirstLetters(Tail(words))

\* re.match(r'^[A-Z]{2,10}$', s)
LooksLikeAcronym(s) ==
    /\ Len(s) >= 2 /\ Len(s) <= 10
    /\ \A n \in 1..Len(s) : IsUpper(s[n])

_extract_acronym(text) ==
    IF LooksLikeAcronym(upper(text))
    THEN Some(upper(text))
    ELSE LET words == split(text)
             acronym == FirstLetters(words)
         IN IF Len(words) > 1 /\ Len(acronym) >= 2 /\ Len(acronym) <= 10
            THEN Some(acronym)
            ELSE NoneStr

\* variant of _expand_acronym: an upper-case text is expanded to its letters
ExpandsToLetters(text) ==
    IF Len(text) > 10 \/ Len(text) < 2 \/ ~(\A n \in 1..Len(text) : IsUpper(text[n]))
    THEN NoneStr
    ELSE Some([n \in 1..(2 * Len(text) - 1) |->
                 IF n % 2 = 1 THEN text[(n + 1) \div 2] ELSE " "])

\* lines 326-336: every path returns None
_expand_acronym(text) == NoneStr

\* list(dict.fromkeys(xs)): first occurrences, in order
RECURSIVE Dedup(_, _)
Dedup(xs, seen) ==
    IF xs = << >> THEN << >>
    ELSE IF \E n \in 1..Len(seen) : seen[n] = Head(xs)
         THEN Dedup(Tail(xs), seen)
         ELSE << Head(xs) >> \o Dedup(Tail(xs), Append(seen, Head(xs)))

\* the falsy entries (None, '') are dropped, then duplicates
BuildStrategies(q) ==
    LET quoted == << "\"" >> \o q \o << "\"" >>
        raw == (IF q = << >> THEN << >> ELSE << q >>)
               \o << quoted >>
               \o _extract_acronym(q)
               \o _expand_acronym(q)
    IN Dedup(raw, << >>)

----------------------------------------------------------------------------
(* Inputs: queries, provider candidates, chooser input, HTTP responses *)

Q_ACRONYM == << "A", "B" >>                              \* "AB"
Q_WORDS   == << "a", "b", "c", " ", "d", "a", "b" >>     \* "abc dab"
Q_PLAIN   == << "a", "1" >>                              \* "a1"
Q_EMPTY   == << >>                                       \* ""
Queries == { Q_ACRONYM, Q_WORDS, Q_PLAIN, Q_EMPTY }
CoreQueries == { Q_WORDS, Q_PLAIN }

Batches == UNION { [1..n -> CoreQueries] : n \in 0..MaxBatch }

\* A candidate as search_projects returns it, with the similarity values
\* fuzz.ratio / partial_ratio / token_set_ratio give for its title (0..100)
\* and the outcome of the description, acronym and exact-title tests.
Cand(id, title, r, p, t, d, a, e) ==
    [ id |-> id, title |-> title, ratio |-> r, partial_ratio |-> p,
      token_set_ratio |-> t, in_description |-> d, acronym |-> a, exact |-> e ]

cExact == Cand(<< "1", "0", "1" >>, "exact",  100, 100, 100, "query", FALSE, TRUE)   \* 1.00
cHigh  == Cand(<< "1", "0", "2" >>, "high",    80, 100, 100, "query", FALSE, FALSE)  \* 0.92
cEdge  == Cand(<< "1", "0", "3" >>, "edge",    75, 100, 100, "query", FALSE, FALSE)  \* 0.90
cEdgeB == Cand(<< "1", "0", "3" >>, "edge-b",  80,  90, 100, "none",  FALSE, FALSE)  \* 0.79
cMid   == Cand(<< "1", "0", "4" >>, "mid",     60,  70,  80, "word",  FALSE, FALSE)  \* 0.66
cLow   == Cand(<< "1", "0", "5" >>, "low",     50,  50,  50, "none",  FALSE, FALSE)  \* 0.45
cTie   == Cand(<< "1", "0", "6" >>, "tie",     60,  70,  80, "word",  FALSE, FALSE)  \* 0.66
cAcr   == Cand(<< "1", "0", "7" >>, "acr",     25, 100, 100, "none",  TRUE,  FALSE)  \* 0.80
cWeak  == Cand(<< "1", "0", "8" >>, "weak",    20,  30,  40, "none",  FALSE, FALSE)  \* 0.25

\* What one call of search_projects may return.
CoreProviderResponses == { << >>, << cExact, cMid >>, << cMid, cLow >> }
ProviderResponses ==
    { << >>,
      << cLow >>,
      << cEdge >>,
      << cHigh >>,
      << cExact, cMid >>,
      << cMid, cEdge >>,
      << cEdgeB, cLow >>,
      << cEdgeB, cEdge >>,
      << cLow, cTie, cMid >>,
      << cWeak, cMid, cTie, cLow, cAcr, cEdgeB >> }

\* What the user may type at the prompt: text int() accepts (with its value),
\* text it rejects, Ctrl-C, or end of input.
Typed(n)  == [ kind |-> "int", n |-> n ]
NotANumber == [ kind |-> "text", n |-> 0 ]
CtrlC      == [ kind |-> "interrupt", n |-> 0 ]
EndOfInput == [ kind |-> "eof", n |-> 0 ]
CoreChooserInputs == { Typed(0), Typed(1), EndOfInput }
ChooserInputs ==
    { Typed(n) : n \in {-1, 0, 1, 2, 5, 6, 9} } \cup { NotANumber, CtrlC, EndOfInput }

\* The namespace validate_xml_file expects; "" stands for an unqualified root tag.
EXPECTED_NAMESPACE == "http://cordis.europa.eu"

\* A parsed document: the local name and namespace of its root, the texts of
\* its elements named id, title, startDate and totalCost in document order (the
\* text of an element is None or a string), its size in bytes once persisted,
\* and a revision that tells two bodies of the same shape apart.
Doc(root, namespace, ids, title, startDate, totalCost, size, rev) ==
    [ kind |-> "xml", root |-> root, namespace |-> namespace, ids |-> ids,
      title |-> title, startDate |-> startDate, totalCost |-> totalCost,
      size |-> size, rev |-> rev ]

SomeText == Some(<< "x" >>)

\* What the GET for a project id may produce: a well-formed document in the
\* expected namespace with its essential fields filled, an HTTP or transport
\* error, or a body that does not parse.
Xml(root, ids, size, rev) ==
    Doc(root, EXPECTED_NAMESPACE, ids, << SomeText >>, << SomeText >>, << SomeText >>,
        size, rev)
HttpError   == [ kind |-> "http_error" ]
Unparseable == [ kind |-> "unparseable" ]
OTHER_ID == << "9", "9", "9" >>
CoreHttpResponses(project_id) ==
    { HttpError, Unparseable,
      Xml("project", << Some(project_id) >>, 2000, 1),
      Xml("project", << Some(project_id) >>, 2000, 2),
      Xml("project", << Some(OTHER_ID) >>, 2000, 2),
      Xml("project", << Some(project_id) >>, 500, 2) }
HttpResponses(project_id) ==
    { HttpError, Unparseable,
      Xml("project", << Some(project_id) >>, 2000, 1),
      Xml("project", << Some(project_id) >>, 2000, 2),
      Xml("project", << >>, 2000, 1),
      Xml("project", << NoneStr >>, 2000, 1),
      Xml("error", << Some(project_id) >>, 2000, 1),
      Xml("project", << Some(OTHER_ID) >>, 2000, 1),
      Xml("project", << Some(project_id) >>, 500, 1) }

ProjectIds == { << "1", "0", d >> : d \in { "1", "2", "3", "4", "5", "6", "7", "8" } }

NoFile == [ kind |-> "nofile" ]
NoProject == [ id |-> "None" ]

----------------------------------------------------------------------------
(* ProjectMatcher *)


\* the cut-off of lines 216 and 237, in thousandths
HIGH_CONFIDENCE == 900

LowerChar(c) ==
    IF IsUpper(c)
    THEN LowerLetters[CHOOSE n \in 1..Len(UpperLetters) : UpperLetters[n] = c]
    ELSE c

\* str.lower()
lower(text) == [n \in 1..Len(text) |-> LowerChar(text[n])]

IsDigit(c) == c \in { "0", "1", "2", "3", "4", "5", "6", "7", "8", "9" }

\* the class \w of the re module
IsWordChar(c) == IsAlphaChar(c) \/ IsDigit(c) \/ c = "_"

\* re.sub(r'\s+', ' ', text)
RECURSIVE CollapseSpaces(_)
CollapseSpaces(text) ==
    IF Len(text) < 2 THEN text
    ELSE IF IsSpace(text[1]) /\ IsSpace(text[2]) THEN CollapseSpaces(Tail(text))
    ELSE << text[1] >> \o CollapseSpaces(Tail(text))

\* lines 304-309
_normalize_string(text) ==
    LET lowered == lower(text)
        cleaned == [n \in 1..Len(lowered) |->
                      IF IsWordChar(lowered[n]) \/ IsSpace(lowered[n])
                      THEN lowered[n] ELSE " "]
    IN CollapseSpaces(strip(cleaned))

\* a in b, for strings
IsSubstring(a, b) ==
    \E n \in 1..(Len(b) + 1) :
       n + Len(a) - 1 <= Len(b) /\ SubSeq(b, n, n + Len(a) - 1) = a

\* the length of the run of letters that starts at position n
RECURSIVE LetterRun(_, _)
LetterRun(text, n) ==
    IF n > Len(text) \/ ~IsAlphaChar(text[n]) THEN 0
    ELSE 1 + LetterRun(text, n + 1)

\* re.findall(r'\b[A-Za-z]{3,}', text) from position n on
RECURSIVE FindWords(_, _)
FindWords(text, n) ==
    IF n > Len(text) THEN << >>
    ELSE LET boundary == n = 1 \/ ~IsWordChar(text[n - 1])
             run == LetterRun(text, n)
         IN IF boundary /\ run >= 3
            THEN << SubSeq(text, n, n + run - 1) >> \o FindWords(text, n + run)
            ELSE FindWords(text, n + 1)

\* lines 338-349
_is_acronym_match(q, title) ==
    LET query_upper == strip(upper(q))
        words == FindWords(title, 1)
        title_acronym == [n \in 1..Len(words) |-> UpperChar(words[n][1])]
    IN IF Len(words) < 2 THEN FALSE
       ELSE query_upper = SubSeq(title_acronym, 1, Min(Len(query_upper), Len(title_acronym)))

\* dict.get(key, ''): a missing value reads as the empty string
GetText(value) == IF value = NoneStr THEN << >> ELSE value[1]

\* variant of DescriptionTest: the single-word test comes first
DescriptionTestWordFirst(q, description) ==
    LET query_norm == _normalize_string(q)
        desc_norm == _normalize_string(description)
        words == split(query_norm)
    IN IF \E n \in 1..Len(words) : Len(words[n]) > 3 /\ IsSubstring(words[n], desc_norm)
       THEN "word"
       ELSE IF IsSubstring(query_norm, desc_norm) THEN "query"
       ELSE "none"

\* lines 283-288: which description bonus applies
DescriptionTest(q, description) ==
    LET query_norm == _normalize_string(q)
        desc_norm == _normalize_string(description)
        words == split(query_norm)
    IN IF IsSubstring(query_norm, desc_norm) THEN "query"
       ELSE IF \E n \in 1..Len(words) : Len(words[n]) > 3 /\ IsSubstring(words[n], desc_norm)
            THEN "word"
       ELSE "none"

\* lines 260-266, 283, 291, 297: the string tests of _calculate_match_score on a
\* search result whose title and description are given as text; the values of
\* fuzz.ratio, partial_ratio and token_set_ratio stay inputs
Tested(q, hit) ==
    Cand(hit.id, GetText(hit.title), hit.ratio, hit.partial_ratio, hit.token_set_ratio,
         DescriptionTest(q, GetText(hit.description)),
         _is_acronym_match(q, GetText(hit.title)),
         _normalize_string(q) = _normalize_string(GetText(hit.title)))

\* variant of _calculate_match_score: no cap on the sum
UncappedMatchScore(q, result) ==
    result.ratio * 4 + result.partial_ratio * 3 + result.token_set_ratio * 2
    + (IF result.in_description = "query" THEN 100
       ELSE IF result.in_description = "word" THEN 50 ELSE 0)
    + (IF result.acronym THEN 200 ELSE 0)
    + (IF result.exact THEN 300 ELSE 0)

_calculate_match_score(q, result) ==
    LET title_similarity == result.ratio * 4
        partial_similarity == result.partial_ratio * 3
        token_similarity == result.token_set_ratio * 2
        description == IF result.in_description = "query" THEN 100
                       ELSE IF result.in_description = "word" THEN 50
                       ELSE 0
        acronym == IF result.acronym THEN 200 ELSE 0
        exact == IF result.exact THEN 300 ELSE 0
    IN Min(title_similarity + partial_similarity + token_similarity
           + description + acronym + exact, 1000)

\* lines 209-211: tag and score every result of one search
ScoreResults(q, strategy, rs) ==
    [ n \in 1..Len(rs) |->
        [ id |-> rs[n].id, title |-> rs[n].title,
          search_strategy |-> strategy,
          match_score |-> _calculate_match_score(q, rs[n]) ] ]

\* variant of HighConfidence: the cut-off itself counts as high confidence
HighConfidenceAtCutoff(rs) == \E n \in 1..Len(rs) : rs[n].match_score >= HIGH_CONFIDENCE

\* line 216
HighConfidence(rs) == \E n \in 1..Len(rs) : rs[n].match_score > HIGH_CONFIDENCE

\* variant of MergeById: the entry seen last replaces the one kept
RECURSIVE MergeByIdLastWins(_, _)
MergeByIdLastWins(unique, rest) ==
    IF rest = << >> THEN unique
    ELSE LET result == Head(rest)
             at == { n \in 1..Len(unique) : unique[n].id = result.id }
         IN IF at = {}
            THEN MergeByIdLastWins(Append(unique, result), Tail(rest))
            ELSE LET n == CHOOSE m \in at : TRUE
                 IN MergeByIdLastWins([unique EXCEPT ![n] = result], Tail(rest))

\* lines 221-225: unique_results, a dict in insertion order of its keys
RECURSIVE MergeById(_, _)
MergeById(unique, rest) ==
    IF rest = << >> THEN unique
    ELSE LET result == Head(rest)
             at == { n \in 1..Len(unique) : unique[n].id = result.id }
         IN IF at = {}
            THEN MergeById(Append(unique, result), Tail(rest))
            ELSE LET n == CHOOSE m \in at : TRUE
                 IN IF result.match_score > unique[n].match_score
                    THEN MergeById([unique EXCEPT ![n] = result], Tail(rest))
                    ELSE MergeById(unique, Tail(rest))

\* line 228: sorted(..., key=match_score, reverse=True) is stable
InsertByScore(sorted, x) ==
    LET before == { n \in 1..Len(sorted) : sorted[n].match_score >= x.match_score }
        pos == IF before = {} THEN 0 ELSE CHOOSE n \in before : \A m \in before : m <= n
    IN SubSeq(sorted, 1, pos) \o << x >> \o SubSeq(sorted, pos + 1, Len(sorted))

\* variant of SortByScore: the merged candidates are left in insertion order
SortByScoreSkipped(xs) == xs

RECURSIVE SortByScore(_)
SortByScore(xs) ==
    IF xs = << >> THEN << >>
    ELSE InsertByScore(SortByScore(SubSeq(xs, 1, Len(xs) - 1)), xs[Len(xs)])

\* lines 220-228
MergeAndSort(all) == SortByScore(MergeById(<< >>, all))

\* variant of TopFive: every merged candidate is presented
TopFiveUncut(xs) == xs

\* line 243: sorted_results[:5]
TopFive(xs) == SubSeq(xs, 1, Min(Len(xs), 5))

\* variant of Decide: a top score equal to the cut-off is accepted as well
DecideAtCutoff(sorted, inter) ==
    IF sorted = << >> THEN [ kind |-> "return", value |-> NoProject ]
    ELSE IF Len(sorted) = 1 \/ sorted[1].match_score >= HIGH_CONFIDENCE
         THEN [ kind |-> "return", value |-> sorted[1] ]
         ELSE IF inter
              THEN [ kind |-> "prompt", value |-> NoProject ]
              ELSE [ kind |-> "return", value |-> sorted[1] ]

\* variant of Decide: the configured threshold is the cut-off, for a single
\* candidate too
DecideAtThreshold(sorted, inter) ==
    IF sorted = << >> THEN [ kind |-> "return", value |-> NoProject ]
    ELSE IF sorted[1].match_score > matcher.threshold
         THEN [ kind |-> "return", value |-> sorted[1] ]
         ELSE IF inter
              THEN [ kind |-> "prompt", value |-> NoProject ]
              ELSE [ kind |-> "return", value |-> sorted[1] ]

\* lines 230-247: what find_best_project does with the sorted candidates
Decide(sorted, inter) ==
    IF sorted = << >> THEN [ kind |-> "return", value |-> NoProject ]
    ELSE IF Len(sorted) = 1 \/ sorted[1].match_score > HIGH_CONFIDENCE
         THEN [ kind |-> "return", value |-> sorted[1] ]
         ELSE IF inter
              THEN [ kind |-> "prompt", value |-> NoProject ]
              ELSE [ kind |-> "return", value |-> sorted[1] ]

\* lines 371-388; EOFError is not caught
_interactive_disambiguation(candidates, input) ==
    IF input.kind = "eof" THEN [ kind |-> "raise", value |-> NoProject ]
    ELSE IF input.kind \in { "text", "interrupt" }
         THEN [ kind |-> "return", value |-> NoProject ]
         ELSE IF input.n = 0 THEN [ kind |-> "return", value |-> NoProject ]
              ELSE IF 1 <= input.n /\ input.n <= Len(candidates)
                   THEN [ kind |-> "return", value |-> candidates[input.n] ]
                   ELSE [ kind |-> "return", value |-> NoProject ]

----------------------------------------------------------------------------
(* CordisXMLDownloader *)

\* the size below which validate_xml_file rejects a file
MIN_FILE_SIZE == 1000

\* the size above which validate_xml_file prints a warning (10 * 1024 * 1024)
MAX_FILE_SIZE == 10485760

\* lines 262-275: the local name of the root decides, the namespace only warns
RootCheck(body) == body.root = "project"

\* variant of IdCheck: every element named id has to carry the expected id
IdCheckEveryElement(body, expected_project_id) ==
    \A n \in 1..Len(body.ids) :
       body.ids[n] # NoneStr /\ strip(body.ids[n][1]) = expected_project_id

\* lines 277-290: the first element named id in document order; an element
\* without text makes .strip() raise, which line 323 turns into False
IdCheck(body, expected_project_id) ==
    IF body.ids = << >> THEN TRUE
    ELSE LET id_element == body.ids[1]
         IN IF id_element = NoneStr THEN FALSE
            ELSE strip(id_element[1]) = expected_project_id

\* lines 296-304: is some element of that name present with non-blank text
FoundIn(texts) ==
    \E n \in 1..Len(texts) : texts[n] # NoneStr /\ strip(texts[n][1]) # << >>

missing_elements(body) ==
    (IF FoundIn(body.title) THEN {} ELSE { "title" })
    \cup (IF FoundIn(body.startDate) THEN {} ELSE { "startDate" })
    \cup (IF FoundIn(body.totalCost) THEN {} ELSE { "totalCost" })

\* variant of EssentialsCheck: a missing essential element fails the validation
EssentialsRequired(body) == missing_elements(body) = {}

\* lines 306-307: the missing essential elements are printed, nothing else
EssentialsCheck(body) ==
    LET warning == missing_elements(body) # {}
    IN TRUE

\* variant of SizeCheck: a file of exactly the minimum size is rejected too
SizeCheckAboveMinimum(file_size) == file_size > MIN_FILE_SIZE

\* lines 310-315: too small is fatal, too large is only printed
SizeCheck(file_size) ==
    IF file_size < MIN_FILE_SIZE THEN FALSE
    ELSE IF file_size > MAX_FILE_SIZE THEN TRUE
    ELSE TRUE

validate_xml_file(body, expected_project_id) ==
    IF body.kind # "xml" THEN FALSE
    ELSE IF ~RootCheck(body) THEN FALSE
    ELSE IF ~IdCheck(body, expected_project_id) THEN FALSE
    ELSE IF ~EssentialsCheck(body) THEN FALSE
    ELSE IF ~SizeCheck(body.size) THEN FALSE
    ELSE TRUE

\* lines 208-229: is the body written to output_path
Saved(response) == response.kind = "xml"

\* variant of FilesAfterDownload: an existing file is appended to
FilesAfterDownloadAppends(fs, project_id, response) ==
    IF ~Saved(response) THEN fs
    ELSE IF fs[project_id] = NoFile THEN [fs EXCEPT ![project_id] = response]
         ELSE [fs EXCEPT ![project_id] =
                  [response EXCEPT !.size = fs[project_id].size + response.size]]

\* the storage directory after download_project_xml(project_id)
FilesAfterDownload(fs, project_id, response) ==
    IF Saved(response) THEN [fs EXCEPT ![project_id] = response] ELSE fs

\* variant of HttpGets: a failed request is repeated retry_count times
HttpGetsWithRetry(retry_count, response) ==
    IF response.kind = "http_error" THEN 1 + retry_count ELSE 1

\* line 208: the requests.get calls of one download_project_xml call;
\* self.retry_count is never read
HttpGets(retry_count, response) == 1

\* the return value: the path (here the id) or None
download_project_xml(project_id, response) ==
    IF Saved(response) /\ validate_xml_file(response, project_id)
    THEN Some(project_id)
    ELSE NoneStr

\* Inputs of the single method calls.
UNIT_ID == << "1", "0", "1" >>
PADDED_ID == << " ", "1", "0", "1", " " >>
BLANK == << " " >>

\* the texts of the id elements of a document, in document order
IdLists ==
    { << >>,
      << NoneStr >>,
      << Some(BLANK) >>,
      << Some(UNIT_ID) >>,
      << Some(PADDED_ID) >>,
      << Some(OTHER_ID) >>,
      << Some(UNIT_ID), Some(OTHER_ID) >>,
      << Some(OTHER_ID), Some(UNIT_ID) >> }

\* the texts of the elements of one essential field
FieldLists ==
    { << >>, << NoneStr >>, << Some(BLANK) >>, << SomeText >>, << NoneStr, SomeText >> }
FewFieldLists == { << >>, << SomeText >> }

Sizes == { 500, MIN_FILE_SIZE - 1, MIN_FILE_SIZE, 2000, MAX_FILE_SIZE, MAX_FILE_SIZE + 1 }

Namespaces == { "", EXPECTED_NAMESPACE, "http://example.org" }

Docs ==
    { Doc(root, namespace, ids, title, startDate, totalCost, size, 1) :
        root \in { "project", "error" }, namespace \in Namespaces, ids \in IdLists,
        title \in FieldLists, startDate \in FewFieldLists, totalCost \in FewFieldLists,
        size \in Sizes }

\* documents for a download: the essential fields all present or all missing
FetchedDocs ==
    { d \in Docs : /\ d.title \in FewFieldLists
                   /\ d.startDate = d.title /\ d.totalCost = d.title }

RetryCounts == { 0, 1, 3 }

\* queries, titles and descriptions of the scoring calls
ScoreQueries ==
    { << >>,
      << "A", "B" >>,
      << "A", "B", "C" >>,
      << " ", "a", "b", " " >>,
      << "a", "b", "c", "d", " ", "a", "b" >>,
      << "a", "b", "c", " ", "d", "d" >> }
ScoreTitles ==
    { NoneStr,
      Some(<< >>),
      Some(<< "a", "b", "c", " ", "b", "c", "d", " ", "c", "d", "a" >>),
      Some(<< "A", "b", "c", "1", "-", "b", "c", "d", ",", " ", "c", "d", "a" >>),
      Some(<< "a", "b" >>),
      Some(<< "A", "b", "c", "d", " ", " ", "a", "b", "!" >>),
      Some(<< "a", "b", "c", " ", "a", "b" >>),
      Some(<< "a", "b", "c", " ", "d", "a", "b" >>) }
ScoreDescriptions ==
    { NoneStr,
      Some(<< >>),
      Some(<< "d", " ", "a", "b", "c", "d", " ", "a", "b", "." >>),
      Some(<< "a", "b", "c", "d", " ", "a", "b", "c" >>) }
FuzzValues == { 0, 50, 100 }

\* queries whose variant list is built
Q_SINGLE == << "a", "b", "c" >>
Q_LONG == << "a", "b", "c", "d", "a", "b", "c", "d", "a", "b", "c" >>
StrategyQueries ==
    { Q_ACRONYM, Q_WORDS, Q_PLAIN, Q_EMPTY, Q_SINGLE, Q_LONG,
      << "a", "b" >>,
      << " " >>,
      << "a", "b", " ", "c", "d" >>,
      << "a", "b", "c", " ", "d", "d" >>,
      << "a", "b", "c", " ", "1", "b", "c", " ", "d", "a", "b" >>,
      << "a", "b", "c", " ", "a", "b", "c", " ", "a", "b", "c", " ", "a", "b", "c", " ", "a", "b", "c", " ", "a", "b", "c", " ", "a", "b", "c", " ", "a", "b", "c", " ", "a", "b", "c", " ", "a", "b", "c", " ", "a", "b", "c" >> }

\* queries whose results are scored variant by variant
VariantQueries == { Q_ACRONYM, Q_WORDS, Q_PLAIN, Q_EMPTY, Q_SINGLE }

\* documents whose metadata is extracted
MetadataDocs ==
    { d \in Docs : d.root = "project" /\ d.namespace = EXPECTED_NAMESPACE /\ d.size = 2000 }

\* the password argument of import_to_neo4j: None, '' or a password
Passwords == { NoneStr, Some(""), Some("secret"), Some("hunter2") }
ProcessOutcomes == { "ok", "nonzero", "timeout" }

\* A search result with its title and description as text.  The values of
\* fuzz.ratio, fuzz.partial_ratio and fuzz.token_set_ratio on the normalized
\* query and title are inputs within what fuzzywuzzy returns: ratio and
\* partial_ratio are 100 for equal strings and 0 when just one is empty,
\* token_set_ratio is 0 when either is empty.
Hits(q) ==
    { h \in [ id : { UNIT_ID }, title : ScoreTitles, description : ScoreDescriptions,
              ratio : FuzzValues, partial_ratio : FuzzValues,
              token_set_ratio : FuzzValues ] :
        LET query_norm == _normalize_string(q)
            title_norm == _normalize_string(GetText(h.title))
        IN /\ query_norm = title_norm => h.ratio = 100 /\ h.partial_ratio = 100
           /\ (query_norm = << >>) # (title_norm = << >>)
                 => h.ratio = 0 /\ h.partial_ratio = 0
           /\ (query_norm = << >> \/ title_norm = << >>) => h.token_set_ratio = 0 }

----------------------------------------------------------------------------
(* State machine: one batch run on a freshly created collector *)

\* ProjectMatcher.__init__ defaults (lines 96-98, 111-114), in thousandths
DEFAULT_MATCHER ==
    [ threshold |-> 750, max_results |-> 10, acronym_boost |-> 100,
      case_sensitive |-> FALSE ]

\* configurations __init__ accepts (lines 137-143) and stores (lines 145-148)
MatcherConfigs ==
    { DEFAULT_MATCHER,
      [ threshold |-> 1000, max_results |-> 1, acronym_boost |-> 300,
        case_sensitive |-> TRUE ] }

FreshStats ==
    [ projects_requested |-> 0, projects_found |-> 0, projects_downloaded |-> 0,
      projects_failed |-> 0, search_failures |-> 0, download_failures |-> 0 ]

NoChoice == [ kind |-> "none", n |-> 0 ]
NoReturn == [ kind |-> "none" ]
NoCall == [ method |-> "none" ]

InitWith(batches, fx) ==
    /\ pc = "loop"
    /\ fixture = fx
    /\ matcher \in (IF fx = "all" THEN MatcherConfigs ELSE { DEFAULT_MATCHER })
    /\ project_names \in batches
    /\ interactive \in BOOLEAN
    /\ delay \in { 0, 1 }
    /\ collect_only \in BOOLEAN
    /\ (~collect_only) => delay = 1
    /\ exit_status = NoneStr
    /\ printed = << >>
    /\ processes = << >>
    /\ archive = [ id \in ProjectIds |-> NoFile ]
    /\ pipeline_return = NoReturn
    /\ unit_call = NoCall
    /\ unit_return = NoReturn
    /\ i = 0
    /\ stats = FreshStats
    /\ results = << >>
    /\ sleeps = << >>
    /\ metadata_files = << >>
    /\ batch_return = NoReturn
    /\ query = << >>
    /\ search_strategies = << >>
    /\ k = 1
    /\ all_results = << >>
    /\ sorted_results = << >>
    /\ search_calls = << >>
    /\ responses = << >>
    /\ prompts = 0
    /\ presented = << >>
    /\ choice = NoChoice
    /\ project = NoProject
    /\ driver = FALSE
    /\ open_sessions = 0
    /\ sessions_started = 0
    /\ files = [ id \in ProjectIds |-> NoFile ]
    /\ downloads = << >>
    /\ error = "none"

\* a batch of up to MaxBatch queries, over the core inputs
Init == InitWith(Batches, "core")

\* one query, over all the inputs
InitResolve == InitWith([1..1 -> Queries], "all")

batch_vars == << project_names, interactive, delay, fixture, matcher >>
collector_vars == << stats, results, sleeps, metadata_files, batch_return >>
call_vars == << query, search_strategies, k, all_results, sorted_results,
                search_calls, responses,
                prompts, presented, choice, project >>
session_vars == << driver, open_sessions, sessions_started >>
storage_vars == << files, downloads >>
main_vars == << collect_only, exit_status, printed, processes, archive,
               pipeline_return >>
unit_vars == << unit_call, unit_return >>

\* collect_multiple_projects lines 220-224, after collect_project_xml returned
SleepAfter(n) ==
    IF n < Len(project_names) /\ delay > 0 THEN Append(sleeps, n) ELSE sleeps

\* Loop head of collect_multiple_projects, collect_project_xml up to its call of
\* find_best_project, and find_best_project up to the with statement.
StartQuery ==
    /\ pc = "loop"
    /\ i < Len(project_names)
    /\ i' = i + 1
    /\ stats' = [stats EXCEPT !.projects_requested = @ + 1]
    /\ query' = project_names[i + 1]
    /\ search_strategies' = BuildStrategies(project_names[i + 1])
    /\ k' = 1
    /\ all_results' = << >>
    /\ sorted_results' = << >>
    /\ search_calls' = << >>
    /\ responses' = << >>
    /\ prompts' = 0
    /\ presented' = << >>
    /\ choice' = NoChoice
    /\ project' = NoProject
    /\ driver' = FALSE
    /\ sessions_started' = 0
    /\ pc' = "enter"
    /\ UNCHANGED << unit_vars, main_vars, batch_vars, results, sleeps, metadata_files, batch_return,
                    open_sessions, storage_vars, error >>

\* CordisSearcher.__enter__ -> _initialize_driver: webdriver.Chrome(...) returns
DriverStart ==
    /\ pc = "enter"
    /\ driver' = TRUE
    /\ open_sessions' = open_sessions + 1
    /\ sessions_started' = sessions_started + 1
    /\ pc' = "configure"
    /\ UNCHANGED << unit_vars, main_vars, batch_vars, i, collector_vars, call_vars, storage_vars, error >>

\* webdriver.Chrome(...) raises: no browser was started, the exception leaves
\* find_best_project, collect_project_xml and the batch loop (nothing catches it)
DriverStartFails ==
    /\ pc = "enter"
    /\ pc' = "raised"
    /\ error' = "session_start"
    /\ UNCHANGED << unit_vars, main_vars, batch_vars, i, collector_vars, call_vars, session_vars,
                    storage_vars >>

\* the rest of _initialize_driver (set_page_load_timeout, execute_script) succeeds
DriverConfigure ==
    /\ pc = "configure"
    /\ pc' = "search"
    /\ UNCHANGED << unit_vars, main_vars, batch_vars, i, collector_vars, call_vars, session_vars,
                    storage_vars, error >>

\* the rest of _initialize_driver raises: __enter__ did not return, so the with
\* statement never calls __exit__ and the started browser is not quit
DriverConfigureFails ==
    /\ pc = "configure"
    /\ pc' = "raised"
    /\ error' = "session_setup"
    /\ UNCHANGED << unit_vars, main_vars, batch_vars, i, collector_vars, call_vars, session_vars,
                    storage_vars >>

\* One iteration of the variant loop, lines 204-218.
SearchVariant ==
    /\ pc = "search"
    /\ k <= Len(search_strategies)
    /\ \E rs \in (IF fixture = "all" THEN ProviderResponses ELSE CoreProviderResponses) :
          LET strategy == search_strategies[k]
              scored == ScoreResults(query, strategy, rs)
          IN /\ search_calls' = Append(search_calls, strategy)
             /\ responses' = Append(responses, scored)
             /\ all_results' = all_results \o scored
             /\ IF HighConfidence(scored) \/ k = Len(search_strategies)
                THEN pc' = "exit" /\ k' = k
                ELSE pc' = "search" /\ k' = k + 1
    /\ UNCHANGED << unit_vars, main_vars, batch_vars, i, collector_vars, query, search_strategies,
                    sorted_results, prompts, presented, choice, project,
                    session_vars, storage_vars, error >>

\* KeyboardInterrupt inside search_projects (it catches Exception only): the with
\* statement runs __exit__, which quits the driver, and the interrupt goes on up.
SearchInterrupted ==
    /\ pc = "search"
    /\ k <= Len(search_strategies)
    /\ search_calls' = Append(search_calls, search_strategies[k])
    /\ open_sessions' = IF driver THEN open_sessions - 1 ELSE open_sessions
    /\ pc' = "raised"
    /\ error' = "interrupt"
    /\ UNCHANGED << unit_vars, main_vars, batch_vars, i, collector_vars, query, search_strategies, k,
                    all_results, sorted_results, responses, prompts, presented,
                    choice, project, driver, sessions_started, storage_vars >>

\* CordisSearcher.__exit__ at the normal end of the with block
ExitSession ==
    /\ pc = "exit"
    /\ open_sessions' = IF driver THEN open_sessions - 1 ELSE open_sessions
    /\ pc' = "decide"
    /\ UNCHANGED << unit_vars, main_vars, batch_vars, i, collector_vars, call_vars, driver,
                    sessions_started, storage_vars, error >>

\* find_best_project lines 220-247
MergeAndDecide ==
    /\ pc = "decide"
    /\ LET sorted == MergeAndSort(all_results)
           d == Decide(sorted, interactive)
       IN /\ sorted_results' = sorted
          /\ IF d.kind = "prompt"
             THEN /\ presented' = TopFive(sorted)
                  /\ prompts' = prompts + 1
                  /\ pc' = "prompt"
                  /\ UNCHANGED project
             ELSE /\ project' = d.value
                  /\ pc' = "resolved"
                  /\ UNCHANGED << presented, prompts >>
    /\ UNCHANGED << unit_vars, main_vars, batch_vars, i, collector_vars, query, search_strategies, k,
                    all_results, search_calls, responses, choice, session_vars,
                    storage_vars, error >>

\* _interactive_disambiguation lines 371-388, the user types something
Choose ==
    /\ pc = "prompt"
    /\ \E input \in (IF fixture = "all" THEN ChooserInputs ELSE CoreChooserInputs) :
          LET r == _interactive_disambiguation(presented, input)
          IN /\ choice' = input
             /\ IF r.kind = "raise"
                THEN pc' = "raised" /\ error' = "eof" /\ UNCHANGED project
                ELSE pc' = "resolved" /\ project' = r.value /\ UNCHANGED error
    /\ UNCHANGED << unit_vars, main_vars, batch_vars, i, collector_vars, query, search_strategies, k,
                    all_results, sorted_results, search_calls, responses, prompts,
                    presented, session_vars, storage_vars >>

\* collect_project_xml lines 153-156 and the loop tail: nothing was resolved
NotFound ==
    /\ pc = "resolved"
    /\ project = NoProject
    /\ stats' = [stats EXCEPT !.search_failures = @ + 1]
    /\ sleeps' = SleepAfter(i)
    /\ pc' = "loop"
    /\ UNCHANGED << unit_vars, main_vars, batch_vars, i, results, metadata_files, batch_return,
                    call_vars, session_vars, storage_vars, error >>

\* collect_project_xml lines 158-192 and the loop tail: download, record
Download ==
    /\ pc = "resolved"
    /\ project # NoProject
    /\ \E response \in (IF fixture = "all" THEN HttpResponses(project.id)
                         ELSE CoreHttpResponses(project.id)) :
          LET xml_path == download_project_xml(project.id, response)
              found == [stats EXCEPT !.projects_found = @ + 1]
          IN /\ files' = FilesAfterDownload(files, project.id, response)
             /\ downloads' = Append(downloads,
                    [ project_id |-> project.id, response |-> response,
                      ok |-> xml_path # NoneStr ])
             /\ IF xml_path = NoneStr
                THEN /\ stats' = [found EXCEPT !.download_failures = @ + 1,
                                               !.projects_failed = @ + 1]
                     /\ UNCHANGED results
                ELSE /\ stats' = [found EXCEPT !.projects_downloaded = @ + 1]
                     /\ results' = Append(results,
                            [ search_query |-> query,
                              project_id |-> project.id,
                              match_score |-> project.match_score,
                              xml_file_path |-> xml_path[1],
                              xml_file_size |-> response.size ])
    /\ sleeps' = SleepAfter(i)
    /\ pc' = "loop"
    /\ UNCHANGED << unit_vars, main_vars, batch_vars, i, metadata_files, batch_return, call_vars,
                    session_vars, error >>

\* variant of SavesMetadata: the record is written whatever was collected
SavesMetadataAlways(rs) == TRUE

\* collect_and_save_batch lines 252-254: is the batch metadata record written
SavesMetadata(rs) == rs # << >>

\* collect_multiple_projects line 226-227 and collect_and_save_batch lines 252-267
FinishBatch ==
    /\ pc = "loop"
    /\ i = Len(project_names)
    /\ IF SavesMetadata(results)
       THEN /\ metadata_files' = Append(metadata_files,
                    [ statistics |-> stats, projects |-> results, after |-> i ])
            /\ batch_return' =
                    [ kind |-> "return",
                      xml_files |-> [ n \in 1..Len(results) |-> results[n].xml_file_path ],
                      metadata_file |-> Some(Len(metadata_files) + 1) ]
       ELSE /\ batch_return' = [ kind |-> "return", xml_files |-> << >>,
                                 metadata_file |-> NoneStr ]
            /\ UNCHANGED metadata_files
    /\ pc' = "done"
    /\ UNCHANGED << unit_vars, main_vars, batch_vars, i, stats, results, sleeps, call_vars,
                    session_vars, storage_vars, error >>

\* cordis_cli.main lines 219-250, after collect_and_build_graph returned or
\* raised: the messages printed inside the try block and the exit status it
\* forces (<< >> when the block is left normally)
main_full_pipeline(xml_files, build_ok, neo4j_import, import_ok) ==
    IF xml_files = << >> \/ ~build_ok
    THEN [ printed |-> << "Error" >>, status |-> << 1 >> ]
    ELSE IF ~neo4j_import
         THEN [ printed |-> << "Pipeline complete!" >>, status |-> NoneStr ]
         ELSE IF import_ok
              THEN [ printed |-> << "Pipeline complete!", "import completed" >>,
                     status |-> NoneStr ]
              ELSE [ printed |-> << "Pipeline complete!", "Neo4j import failed!" >>,
                     status |-> << 1 >> ]

\* main line 261, reached when nothing in the try block exited the process
EndOfMain(out) ==
    IF out.status = NoneStr
    THEN [ printed |-> Append(out.printed, "All operations completed successfully!"),
           status |-> << 0 >> ]
    ELSE out

\* main lines 187-205 and 261: collect-only mode, the batch returned
MainCollectOnly ==
    /\ pc = "done"
    /\ exit_status = NoneStr
    /\ collect_only
    /\ LET out == EndOfMain([ printed |-> << "Collection complete!" >>,
                              status |-> NoneStr ])
       IN /\ printed' = printed \o out.printed
          /\ exit_status' = out.status
    /\ UNCHANGED << unit_vars, batch_vars, collect_only, pc, i, collector_vars,
                    call_vars, session_vars, storage_vars, error,
                    processes, archive, pipeline_return >>

\* import_to_neo4j lines 259-272: the command, as its list of arguments
ImportCommand(graph_db_path, neo4j_uri, user, password, dry_run) ==
    << "python", "-m", "raxkg.populate_graph.import_to_neo4j.import_graph_db",
       "--graph-db", graph_db_path, "--neo4j-uri", neo4j_uri, "--user", user >>
    \o (IF password # NoneStr /\ password[1] # ""
        THEN << "--password", password[1] >> ELSE << >>)
    \o << IF dry_run THEN "--dry-run" ELSE "--create-constraints" >>

\* import_to_neo4j line 274: the command is printed without its last argument
PrintedCommand(cmd) == Append(SubSeq(cmd, 1, Len(cmd) - 1), "[password hidden]")

\* import_to_neo4j lines 295-309: False on a non-zero exit and on a timeout
import_to_neo4j(outcome) == outcome = "ok"

\* _build_raxkg_graph lines 211-234: the version path, or an exception
\* (returncode != 0 raises, TimeoutExpired is not caught)
_build_raxkg_graph(outcome) ==
    IF outcome = "ok" THEN Some("graph_db/v1") ELSE NoneStr

\* a file path: the directory and the file name
Path(dir, name) == [ dir |-> dir, name |-> name ]

\* collect_and_build_graph lines 138-165, after collect_and_save_batch
\* returned xml_files: the value returned, or an exception
collect_and_build_graph(xml_files, cleanup_xml, build) ==
    IF xml_files = << >> \/ _build_raxkg_graph(build) = NoneStr
    THEN [ kind |-> "raised" ]
    ELSE LET saved_xml_files ==
                 IF cleanup_xml THEN << >>
                 ELSE [ n \in 1..Len(xml_files) |-> Path("source_xml", xml_files[n]) ]
             temp_xml_files ==
                 [ n \in 1..Len(xml_files) |-> Path("temp_dir", xml_files[n]) ]
         IN [ kind |-> "return",
              graph_db_path |-> _build_raxkg_graph(build)[1],
              cleanup_xml |-> cleanup_xml,
              xml_files |-> IF saved_xml_files # << >> THEN saved_xml_files
                            ELSE temp_xml_files ]

\* collect_and_build_graph lines 154-161: the files copied to source_xml
ArchiveAfter(fs, xml_files, cleanup_xml, build) ==
    [ id \in ProjectIds |->
        IF ~cleanup_xml /\ _build_raxkg_graph(build) # NoneStr
           /\ \E n \in 1..Len(xml_files) : xml_files[n] = id
        THEN fs[id] ELSE NoFile ]

\* line 128: the temporary directory is removed when the with block is left
TempDirRemoved == [ id \in ProjectIds |-> NoFile ]

\* variant of ProcessesRun: the import is attempted whatever the build did
ProcessesRunImportAlways(xml_files, build, neo4j_import, import) ==
    (IF xml_files # << >> THEN << [ name |-> "build", outcome |-> build ] >>
     ELSE << >>)
    \o (IF neo4j_import THEN << [ name |-> "import", outcome |-> import ] >>
        ELSE << >>)

\* the subprocess.run calls of the full pipeline, in order: the build of
\* raxkg_integration.py line 211 and the import of line 287
ProcessesRun(xml_files, build, neo4j_import, import) ==
    IF xml_files = << >> THEN << >>
    ELSE IF _build_raxkg_graph(build) = NoneStr
         THEN << [ name |-> "build", outcome |-> build ] >>
         ELSE << [ name |-> "build", outcome |-> build ] >>
              \o (IF neo4j_import
                  THEN << [ name |-> "import", outcome |-> import ] >>
                  ELSE << >>)

\* The arguments and process outcomes of a full pipeline run.  A process has
\* an outcome only when it is run, and cleanup_xml is at its default on the
\* paths that never read it: no build outcome without a document (line 139),
\* no cleanup_xml without a finished build (line 154), no import outcome
\* without an import (main line 235).
PipelineRuns(xml_files) ==
    { run \in [ cleanup_xml : BOOLEAN, build : ProcessOutcomes,
                neo4j_import : BOOLEAN, import : ProcessOutcomes ] :
        /\ xml_files = << >> => run.build = "ok"
        /\ ( xml_files = << >> \/ run.build # "ok" ) =>
              run.cleanup_xml /\ run.import = "ok"
        /\ ~run.neo4j_import => run.import = "ok" }

\* the runs without --output-dir in which no process times out
CorePipelineRuns(xml_files) ==
    { run \in PipelineRuns(xml_files) :
        run.cleanup_xml /\ run.build # "timeout" /\ run.import # "timeout" }

\* main lines 207-250 and 261 with collect_and_build_graph lines 138-165: full
\* pipeline mode, the batch returned; the external build and import succeed,
\* fail or time out
MainFullPipeline ==
    /\ pc = "done"
    /\ exit_status = NoneStr
    /\ ~collect_only
    /\ \E run \in (IF fixture = "all" THEN PipelineRuns(batch_return.xml_files)
                    ELSE CorePipelineRuns(batch_return.xml_files)) :
          LET xml_files == batch_return.xml_files
              cleanup_xml == run.cleanup_xml
              build == run.build
              neo4j_import == run.neo4j_import
              import == run.import
              out == EndOfMain(main_full_pipeline(xml_files, build = "ok",
                                   neo4j_import, import_to_neo4j(import)))
          IN /\ printed' = printed \o out.printed
             /\ exit_status' = out.status
             /\ processes' = ProcessesRun(xml_files, build, neo4j_import, import)
             /\ archive' = ArchiveAfter(files, xml_files, cleanup_xml, build)
             /\ pipeline_return' = collect_and_build_graph(xml_files, cleanup_xml, build)
             /\ files' = TempDirRemoved
    /\ UNCHANGED << unit_vars, batch_vars, collect_only, pc, i, collector_vars,
                    call_vars, session_vars, downloads, error >>

\* main lines 252-259: an exception left the batch in either mode; in full
\* pipeline mode it left collect_and_build_graph and its with block
MainCatches ==
    /\ pc = "raised"
    /\ exit_status = NoneStr
    /\ printed' = Append(printed, IF error = "interrupt"
                                  THEN "Operation cancelled by user" ELSE "Error")
    /\ exit_status' = << 1 >>
    /\ files' = (IF collect_only THEN files ELSE TempDirRemoved)
    /\ pipeline_return' = (IF collect_only THEN pipeline_return
                           ELSE [ kind |-> "raised" ])
    /\ UNCHANGED << unit_vars, batch_vars, collect_only, pc, i, collector_vars,
                    call_vars, session_vars, downloads, error, processes, archive >>

Next ==
    \/ StartQuery
    \/ DriverStart
    \/ DriverStartFails
    \/ DriverConfigure
    \/ DriverConfigureFails
    \/ SearchVariant
    \/ SearchInterrupted
    \/ ExitSession
    \/ MergeAndDecide
    \/ Choose
    \/ NotFound
    \/ Download
    \/ FinishBatch
    \/ MainCollectOnly
    \/ MainFullPipeline
    \/ MainCatches

Spec == Init /\ [][Next]_vars

\* variant of ScoreHit: the result is scored against the variant that found it
ScoreHitAgainstVariant(q, strategy, hit) ==
    [ id |-> hit.id, search_strategy |-> strategy,
      match_score |-> _calculate_match_score(strategy, Tested(strategy, hit)) ]

\* find_best_project lines 209-211: tag and score one result given as text
ScoreHit(q, strategy, hit) ==
    [ id |-> hit.id, search_strategy |-> strategy,
      match_score |-> _calculate_match_score(q, Tested(q, hit)) ]

\* get_xml_metadata lines 380-385: the stripped text of the first element of
\* that name whose text is not blank; None when the key is not set
RECURSIVE FirstNonBlank(_)
FirstNonBlank(texts) ==
    IF texts = << >> THEN NoneStr
    ELSE IF Head(texts) # NoneStr /\ strip(Head(texts)[1]) # << >>
         THEN Some(strip(Head(texts)[1]))
         ELSE FirstNonBlank(Tail(texts))

\* get_xml_metadata lines 368-385, for the fields the document model carries
get_xml_metadata(body) ==
    [ id |-> FirstNonBlank(body.ids), title |-> FirstNonBlank(body.title),
      startDate |-> FirstNonBlank(body.startDate),
      totalCost |-> FirstNonBlank(body.totalCost) ]

\* A single call of download_project_xml, validate_xml_file,
\* _calculate_match_score, get_xml_metadata or import_to_neo4j on fresh
\* objects, of the variant list of find_best_project, or of its scoring loop.
StrategyCalls == [ method : { "search_strategies" }, query : StrategyQueries ]
VariantCalls ==
    UNION { [ method : { "score_results" }, query : { q }, result : Hits(q) ] :
              q \in VariantQueries }
MetadataCalls == [ method : { "get_xml_metadata" }, body : MetadataDocs ]
ImportCalls ==
    [ method : { "import_to_neo4j" }, graph_db_path : { "graph_db/v1" },
      neo4j_uri : { "bolt://localhost:7687" }, user : { "neo4j" },
      password : Passwords, dry_run : BOOLEAN, outcome : ProcessOutcomes ]
DownloadCalls ==
    [ method : { "download_project_xml" }, project_id : { UNIT_ID },
      response : FetchedDocs \cup { HttpError, Unparseable }, retry_count : RetryCounts ]
ValidateCalls ==
    [ method : { "validate_xml_file" }, body : Docs, expected_project_id : { UNIT_ID } ]
ScoreCalls ==
    UNION { [ method : { "_calculate_match_score" }, query : { q }, result : Hits(q) ] :
              q \in ScoreQueries }

InitUnit ==
    /\ pc = "unit"
    /\ fixture = "unit"
    /\ matcher = DEFAULT_MATCHER
    /\ unit_call \in DownloadCalls \cup ValidateCalls \cup ScoreCalls
                      \cup StrategyCalls \cup VariantCalls \cup MetadataCalls
                      \cup ImportCalls
    /\ unit_return = NoReturn
    /\ project_names = << >>
    /\ interactive = FALSE
    /\ delay = 0
    /\ collect_only = TRUE
    /\ exit_status = NoneStr
    /\ printed = << >>
    /\ processes = << >>
    /\ archive = [ id \in ProjectIds |-> NoFile ]
    /\ pipeline_return = NoReturn
    /\ i = 0
    /\ stats = FreshStats
    /\ results = << >>
    /\ sleeps = << >>
    /\ metadata_files = << >>
    /\ batch_return = NoReturn
    /\ query = << >>
    /\ search_strategies = << >>
    /\ k = 1
    /\ all_results = << >>
    /\ sorted_results = << >>
    /\ search_calls = << >>
    /\ responses = << >>
    /\ prompts = 0
    /\ presented = << >>
    /\ choice = NoChoice
    /\ project = NoProject
    /\ driver = FALSE
    /\ open_sessions = 0
    /\ sessions_started = 0
    /\ files = [ id \in ProjectIds |-> NoFile ]
    /\ downloads = << >>
    /\ error = "none"

idle_vars == << main_vars, batch_vars, i, collector_vars, call_vars, session_vars,
               downloads, error >>

\* download_project_xml lines 187-245
CallDownload ==
    /\ pc = "unit"
    /\ unit_call.method = "download_project_xml"
    /\ LET project_id == unit_call.project_id
           response == unit_call.response
       IN /\ files' = FilesAfterDownload(files, project_id, response)
          /\ unit_return' =
                [ kind |-> "return",
                  value |-> download_project_xml(project_id, response),
                  http_gets |-> HttpGets(unit_call.retry_count, response) ]
    /\ pc' = "returned"
    /\ UNCHANGED << idle_vars, unit_call >>

\* validate_xml_file lines 258-325
CallValidate ==
    /\ pc = "unit"
    /\ unit_call.method = "validate_xml_file"
    /\ unit_return' =
          [ kind |-> "return",
            value |-> validate_xml_file(unit_call.body, unit_call.expected_project_id) ]
    /\ pc' = "returned"
    /\ UNCHANGED << idle_vars, unit_call, files >>

\* _calculate_match_score lines 260-302
CallScore ==
    /\ pc = "unit"
    /\ unit_call.method = "_calculate_match_score"
    /\ LET tested == Tested(unit_call.query, unit_call.result)
       IN unit_return' =
             [ kind |-> "return",
               value |-> _calculate_match_score(unit_call.query, tested),
               tested |-> tested ]
    /\ pc' = "returned"
    /\ UNCHANGED << idle_vars, unit_call, files >>

\* find_best_project lines 189-197
CallStrategies ==
    /\ pc = "unit"
    /\ unit_call.method = "search_strategies"
    /\ unit_return' =
          [ kind |-> "return",
            value |-> BuildStrategies(unit_call.query),
            acronym |-> _extract_acronym(unit_call.query),
            expansion |-> _expand_acronym(unit_call.query) ]
    /\ pc' = "returned"
    /\ UNCHANGED << idle_vars, unit_call, files >>

\* find_best_project lines 204-213, the provider returning the same result
\* for every variant
CallScoreResults ==
    /\ pc = "unit"
    /\ unit_call.method = "score_results"
    /\ LET strategies == BuildStrategies(unit_call.query)
       IN unit_return' =
             [ kind |-> "return",
               value |-> [ n \in 1..Len(strategies) |->
                             ScoreHit(unit_call.query, strategies[n], unit_call.result) ] ]
    /\ pc' = "returned"
    /\ UNCHANGED << idle_vars, unit_call, files >>

\* get_xml_metadata lines 368-395
CallMetadata ==
    /\ pc = "unit"
    /\ unit_call.method = "get_xml_metadata"
    /\ unit_return' = [ kind |-> "return", value |-> get_xml_metadata(unit_call.body) ]
    /\ pc' = "returned"
    /\ UNCHANGED << idle_vars, unit_call, files >>

\* import_to_neo4j lines 254-311
CallImport ==
    /\ pc = "unit"
    /\ unit_call.method = "import_to_neo4j"
    /\ LET cmd == ImportCommand(unit_call.graph_db_path, unit_call.neo4j_uri,
                                unit_call.user, unit_call.password, unit_call.dry_run)
       IN unit_return' =
             [ kind |-> "return",
               value |-> import_to_neo4j(unit_call.outcome),
               cmd |-> cmd,
               printed |-> PrintedCommand(cmd) ]
    /\ pc' = "returned"
    /\ UNCHANGED << idle_vars, unit_call, files >>

NextUnit ==
    \/ CallDownload
    \/ CallValidate
    \/ CallScore
    \/ CallStrategies
    \/ CallScoreResults
    \/ CallMetadata
    \/ CallImport

SpecUnit == InitUnit /\ [][NextUnit]_vars

SpecResolve == InitResolve /\ [][Next]_vars

----------------------------------------------------------------------------
(* Properties of find_best_project *)

\* every candidate any search of the running call returned, scored
Seen == UNION { { responses[n][m] : m \in 1..Len(responses[n]) } : n \in 1..Len(responses) }

\* the variant loop of the running call was left by break or exhaustion
LoopLeft == pc \in { "exit", "decide", "prompt", "resolved" }

\* the merge and sort of the running call are done
Merged == pc \in { "prompt", "resolved" }

\* the running call returned (a candidate or None)
Returned == pc = "resolved"

Above090(rs) == \E m \in 1..Len(rs) : rs[m].match_score > 900

Ranked == { sorted_results[n] : n \in 1..Len(sorted_results) }

\* C1: variants are queried one at a time in list order; once the results of a
\* variant hold a candidate scoring above 0.90 no later variant is passed to the
\* provider (the call count is that variant's position); when no variant yields
\* one, every variant is queried exactly once.
C1_EarlyExit ==
    /\ Len(search_calls) <= Len(search_strategies)
    /\ \A n \in 1..Len(search_calls) : search_calls[n] = search_strategies[n]
    /\ \A n \in 1..Len(responses) : Above090(responses[n]) => Len(search_calls) = n
    /\ LoopLeft =>
          \/ \E n \in 1..Len(responses) : Above090(responses[n]) /\ Len(search_calls) = n
          \/ /\ \A n \in 1..Len(responses) : ~Above090(responses[n])
             /\ search_calls = search_strategies

\* a three-variant query whose first search already returned a candidate above 0.90
C1_Witness ==
    /\ Returned
    /\ Len(search_strategies) = 3
    /\ Len(search_calls) = 1
    /\ Above090(responses[1])

\* C2: after the merge every project id occurs at most once in the merged set and
\* the score kept for an id is the maximum of the scores computed for that id
\* over all variants queried in the call.
C2_MergeKeepsMaximum ==
    Merged =>
       /\ \A m, n \in 1..Len(sorted_results) :
             sorted_results[m].id = sorted_results[n].id => m = n
       /\ { c.id : c \in Ranked } = { c.id : c \in Seen }
       /\ \A c \in Ranked :
             /\ \E d \in Seen : d.id = c.id /\ d.match_score = c.match_score
             /\ \A d \in Seen : d.id = c.id => d.match_score <= c.match_score

\* two variants returned the same id with different scores, the lower one last
C2_Witness ==
    /\ Merged
    /\ \E m, n \in 1..Len(responses) :
          /\ m < n
          /\ \E c \in { responses[m][a] : a \in 1..Len(responses[m]) } :
             \E d \in { responses[n][b] : b \in 1..Len(responses[n]) } :
                c.id = d.id /\ d.match_score < c.match_score

\* C3: in both modes, a merged set of exactly one candidate, or a top score above
\* 0.90, returns the top-ranked candidate without invoking the chooser; the chooser
\* is invoked only with at least two candidates and a top score of at most 0.90,
\* and a top score of exactly 0.90 with two candidates is not auto-accepted.
C3_AutoAccept ==
    Merged =>
       /\ ( Len(sorted_results) = 1
            \/ (Len(sorted_results) >= 1 /\ sorted_results[1].match_score > 900) )
          => /\ Returned
             /\ prompts = 0
             /\ project = sorted_results[1]
             /\ \A c \in Seen : c.match_score <= project.match_score
       /\ prompts > 0 =>
             Len(sorted_results) >= 2 /\ sorted_results[1].match_score <= 900
       /\ ( interactive /\ Len(sorted_results) >= 2
            /\ sorted_results[1].match_score = 900 ) => prompts = 1

\* interactive mode, several candidates, the best above 0.90: returned unprompted
C3_Witness ==
    /\ Returned
    /\ interactive
    /\ Len(sorted_results) >= 2
    /\ sorted_results[1].match_score > 900
    /\ project = sorted_results[1]
    /\ prompts = 0

\* C4: with interactive=False the call returns None exactly when every queried
\* variant returned an empty list, and otherwise a candidate of the merged set
\* whose score is the maximum over the merged set, without ever prompting.
C4_NonInteractive ==
    ~interactive =>
       /\ pc # "prompt"
       /\ prompts = 0
       /\ Returned =>
             /\ project = NoProject <=> \A n \in 1..Len(responses) : responses[n] = << >>
             /\ project # NoProject =>
                   /\ project \in Ranked
                   /\ project \in Seen
                   /\ \A c \in Seen : c.match_score <= project.match_score

\* non-interactive, several candidates none above 0.90, the top one returned
C4_Witness ==
    /\ Returned
    /\ ~interactive
    /\ Len(sorted_results) >= 2
    /\ sorted_results[1].match_score <= 900
    /\ project = sorted_results[1]
    /\ sorted_results[2].match_score < project.match_score

\* C5: the chooser is shown at most the five highest-scored merged candidates in
\* descending score order; input k with 1 <= k <= number shown returns the k-th;
\* input 0, an input above the number shown, a negative number or non-numeric
\* input return None.
C5_Disambiguation ==
    /\ prompts > 0 =>
          /\ Len(presented) <= 5
          /\ Len(presented) = (IF Len(sorted_results) < 5 THEN Len(sorted_results) ELSE 5)
          /\ \A n \in 1..Len(presented) : presented[n] = sorted_results[n]
          /\ \A m, n \in 1..Len(presented) :
                m < n => presented[m].match_score >= presented[n].match_score
          /\ \A n \in 1..Len(presented) : \A c \in Seen :
                (\A m \in 1..Len(presented) : presented[m].id # c.id)
                   => c.match_score <= presented[n].match_score
    /\ (Returned /\ choice.kind = "int") =>
          IF 1 <= choice.n /\ choice.n <= Len(presented)
          THEN project = presented[choice.n]
          ELSE project = NoProject
    /\ (Returned /\ choice.kind = "text") => project = NoProject

\* six candidates merged, five shown, the user types 6: None
C5_Witness ==
    /\ Returned
    /\ Len(sorted_results) >= 6
    /\ Len(presented) = 5
    /\ choice = Typed(6)
    /\ project = NoProject

----------------------------------------------------------------------------
(* Properties of the session, the batch loop and the storage *)

\* no find_best_project call is running
NoCallRunning == pc \in { "resolved", "loop", "done", "raised" }

\* the batch run is over, by return or by an exception
BatchOver == pc \in { "done", "raised" }

\* C6: every find_best_project call acquires one search session and on every exit
\* path (a result, None, an exception from a search, an exception while the
\* session is set up) that session is torn down when the call ends: after any
\* sequence of calls no session is open.
C6_SessionTornDown ==
    /\ sessions_started <= 1
    /\ NoCallRunning => open_sessions = 0

\* C7: collect_multiple_projects processes every query of the batch exactly once
\* and in order; no outcome of an earlier query, an error raised by its
\* resolution included, keeps the remaining queries from being processed.
C7_EveryQueryProcessed ==
    BatchOver =>
       /\ i = Len(project_names)
       /\ stats.projects_requested = Len(project_names)

\* C8: a download_project_xml call that returns None leaves the storage
\* directory unchanged: a file exists for an id only if some download of that id
\* passed validation, and it holds the body of the last such download.
C8_FailedDownloadLeavesStorage ==
    \A id \in ProjectIds :
       LET passed == { n \in 1..Len(downloads) :
                          downloads[n].project_id = id /\ downloads[n].ok }
       IN IF passed = {}
          THEN files[id] = NoFile
          ELSE files[id] =
                  downloads[CHOOSE n \in passed : \A m \in passed : m <= n].response

\* C9: on a fresh collector, whenever no query is being processed,
\* projects_requested = search_failures + download_failures + projects_downloaded,
\* projects_found = download_failures + projects_downloaded, and the number of
\* result records is projects_downloaded (each query counts in exactly one of
\* the three outcome counters).
C9_CountersBalance ==
    pc \in { "loop", "done", "raised" } =>
       /\ stats.projects_requested =
             stats.search_failures + stats.download_failures + stats.projects_downloaded
       /\ stats.projects_found = stats.download_failures + stats.projects_downloaded
       /\ Len(results) = stats.projects_downloaded

----------------------------------------------------------------------------
(* Properties of the command line and of cancellation *)

SuccessPrinted ==
    \E n \in 1..Len(printed) : printed[n] = "All operations completed successfully!"

\* C11: a run (of at least one query) in which no document was successfully
\* acquired ends with non-zero exit status and never prints the final success
\* message, in collect-only mode and in full-pipeline mode.
C11_ZeroSuccessIsFailure ==
    (Len(project_names) >= 1 /\ stats.projects_downloaded = 0) =>
       /\ ~SuccessPrinted
       /\ exit_status # NoneStr => exit_status = << 1 >>

\* the prompt of the running call was answered by a cancellation
Cancelled ==
    \/ choice = Typed(0)
    \/ choice.kind = "interrupt"
    \/ choice.kind = "eof"

\* C12: in an interactive batch a cancellation at the disambiguation prompt
\* (choice 0, an interrupt, the input stream ending) makes find_best_project
\* return None for that query only: no exception leaves collect_project_xml,
\* the query is counted as a resolution failure and the batch goes on.
C12_CancellationIsLocal ==
    (interactive /\ Cancelled) =>
       /\ pc # "raised"
       /\ error = "none"
       /\ project = NoProject
       /\ pc \in { "loop", "done" } => stats.search_failures >= 1

----------------------------------------------------------------------------
(* Properties of single calls: download, validation, scoring *)

Called(method) == pc = "returned" /\ unit_call.method = method

\* the first id element of the document carries the expected id
FirstIdMatches(body, expected) ==
    /\ body.ids # << >>
    /\ body.ids[1] # NoneStr
    /\ strip(body.ids[1][1]) = expected

C14_FirstIdDecides ==
    Called("validate_xml_file") =>
       LET body == unit_call.body
           expected == unit_call.expected_project_id
           otherwise == body.root = "project" /\ body.size >= 1000
       IN /\ (body.ids # << >> /\ ~FirstIdMatches(body, expected))
                => unit_return.value = FALSE
          /\ FirstIdMatches(body, expected) => unit_return.value = otherwise
          /\ body.ids = << >> => unit_return.value = otherwise

\* root 'project', size within bounds, the first id is another project's and
\* the second one is the requested id: rejected
C14_Witness ==
    /\ Called("validate_xml_file")
    /\ unit_call.body.root = "project"
    /\ unit_call.body.size = 2000
    /\ unit_call.body.ids = << Some(OTHER_ID), Some(unit_call.expected_project_id) >>
    /\ unit_return.value = FALSE

\* C15: validate_xml_file, and so download_project_xml, fails for every
\* persisted document smaller than 1KB (1000 bytes), whatever its root tag,
\* identifier and essential fields; a document of at least 1KB is never
\* rejected for its size.
C15_TooSmallFails ==
    /\ Called("validate_xml_file") =>
          LET body == unit_call.body
          IN IF body.size < 1000
             THEN unit_return.value = FALSE
             ELSE unit_return.value =
                     ( body.root = "project"
                       /\ (body.ids = << >>
                           \/ FirstIdMatches(body, unit_call.expected_project_id)) )
    /\ ( Called("download_project_xml")
         /\ unit_call.response.kind = "xml" /\ unit_call.response.size < 1000 )
          => unit_return.value = NoneStr

\* a 500-byte document with correct root, namespace, id and essential fields
C15_Witness ==
    /\ Called("validate_xml_file")
    /\ unit_call.body =
          Xml("project", << Some(unit_call.expected_project_id) >>, 500, 1)
    /\ unit_return.value = FALSE

\* C16: download_project_xml returns a path only if the root element of the
\* document has local name 'project' and its declared namespace is the expected
\* namespace constant.
C16_RootAndNamespace ==
    ( Called("download_project_xml") /\ unit_return.value # NoneStr ) =>
       /\ unit_call.response.root = "project"
       /\ unit_call.response.namespace = "http://cordis.europa.eu"

\* C17: missing or empty essential fields (title, startDate, totalCost) and a
\* size above 10MB are warnings only: documents that differ only in those
\* respects get the same result, and a document with correct root, matching id
\* and at least 1KB validates with all three essential fields missing.
C17_WarningsOnly ==
    Called("validate_xml_file") =>
       LET body == unit_call.body
           expected == unit_call.expected_project_id
       IN /\ \A title \in FieldLists, startDate \in FewFieldLists,
                totalCost \in FewFieldLists :
                validate_xml_file([body EXCEPT !.title = title,
                                               !.startDate = startDate,
                                               !.totalCost = totalCost], expected)
                   = unit_return.value
          /\ body.size >= 1000 =>
                \A size \in { 1000, 10 * 1024 * 1024, 10 * 1024 * 1024 + 1 } :
                   validate_xml_file([body EXCEPT !.size = size], expected)
                      = unit_return.value
          /\ ( body.root = "project" /\ FirstIdMatches(body, expected)
               /\ body.size >= 1000 ) => unit_return.value = TRUE

\* correct root and id, larger than 10MB, none of the essential fields present
C17_Witness ==
    /\ Called("validate_xml_file")
    /\ unit_call.body.root = "project"
    /\ FirstIdMatches(unit_call.body, unit_call.expected_project_id)
    /\ unit_call.body.size > 10 * 1024 * 1024
    /\ unit_call.body.title = << >>
    /\ unit_call.body.startDate = << >>
    /\ unit_call.body.totalCost = << >>
    /\ unit_return.value = TRUE

InUnitInterval(score) == 0 <= score /\ score <= 1000

\* C18: for every query and candidate (empty query, empty title and missing
\* description included) _calculate_match_score returns a value in [0,1], so
\* every match_score attached to a candidate, kept in the merged set or
\* returned by find_best_project lies in [0,1].
C18_ScoreRange ==
    /\ Called("_calculate_match_score") => InUnitInterval(unit_return.value)
    /\ \A n \in 1..Len(all_results) : InUnitInterval(all_results[n].match_score)
    /\ \A n \in 1..Len(sorted_results) : InUnitInterval(sorted_results[n].match_score)
    /\ project # NoProject => InUnitInterval(project.match_score)

\* empty query, no title, no description: the sum is 1.1 before the cap
C18_Witness ==
    /\ Called("_calculate_match_score")
    /\ unit_call.query = << >>
    /\ unit_call.result.title = NoneStr
    /\ unit_call.result.description = NoneStr
    /\ unit_return.tested.exact
    /\ unit_return.tested.in_description = "query"
    /\ unit_return.value = 1000

\* C19: the score is min(1.0, 0.4*ratio + 0.3*partial + 0.2*tokenSet + descBonus
\* + acronymBonus + exactBonus); descBonus is 0.10 when the normalized query
\* is a substring of the normalized description, else 0.05 when a query token
\* longer than three characters occurs in it, else 0; exactBonus is 0.30 iff
\* normalized query and title are equal; the cap applies to the sum only.  A
\* candidate whose normalized title equals the normalized query and whose
\* description contains the query scores exactly 1.0.
C19_ScoreFormula ==
    Called("_calculate_match_score") =>
       LET result == unit_call.result
           q == _normalize_string(unit_call.query)
           title == _normalize_string(GetText(result.title))
           description == _normalize_string(GetText(result.description))
           tokens == split(q)
           descBonus ==
              IF IsSubstring(q, description) THEN 100
              ELSE IF \E n \in 1..Len(tokens) :
                         Len(tokens[n]) > 3 /\ IsSubstring(tokens[n], description)
                   THEN 50
              ELSE 0
           acronymBonus == IF unit_return.tested.acronym THEN 200 ELSE 0
           exactBonus == IF q = title THEN 300 ELSE 0
           sum == 4 * result.ratio + 3 * result.partial_ratio
                  + 2 * result.token_set_ratio + descBonus + acronymBonus + exactBonus
       IN /\ unit_return.value = (IF sum > 1000 THEN 1000 ELSE sum)
          /\ (q = title /\ IsSubstring(q, description)) => unit_return.value = 1000

\* query and title equal after normalization only, the description holds the
\* query, no acronym bonus: the sum of 1.3 is capped to 1.0
C19_Witness ==
    /\ Called("_calculate_match_score")
    /\ unit_call.query # << >>
    /\ unit_call.query # GetText(unit_call.result.title)
    /\ unit_return.tested.exact
    /\ unit_return.tested.in_description = "query"
    /\ ~unit_return.tested.acronym
    /\ unit_call.result.token_set_ratio = 100
    /\ unit_return.value = 1000

\* the acronym of the title: the first letters of its words of three or more
\* letters, provided there are at least two such words
IsWholeAcronym(q, title) ==
    LET words == FindWords(title, 1)
        title_acronym == [n \in 1..Len(words) |-> UpperChar(words[n][1])]
    IN Len(words) >= 2 /\ strip(upper(q)) = title_acronym

\* C20: the acronym bonus of +0.20 is added if and only if the upper-cased
\* query equals the whole acronym formed from the first letters of the
\* significant words of the title; a proper prefix of that acronym, or an
\* empty query, gets no acronym bonus.
C20_AcronymBonusOnEquality ==
    Called("_calculate_match_score") =>
       ( unit_return.tested.acronym
            <=> IsWholeAcronym(unit_call.query, GetText(unit_call.result.title)) )

----------------------------------------------------------------------------
(* Properties of the variant list, the scoring loop, metadata and import *)

\* C21: every candidate is scored against the original query, never against
\* the variant that returned it: the same candidate gets the same score
\* whichever variant returned it, and its search_strategy names that variant.
C21_ScoredAgainstQuery ==
    Called("score_results") =>
       LET q == unit_call.query
           scored == unit_return.value
           original == _calculate_match_score(q, Tested(q, unit_call.result))
           quoted == << "\"" >> \o q \o << "\"" >>
       IN /\ \A n \in 1..Len(scored) : scored[n].match_score = original
          /\ \A m, n \in 1..Len(scored) : scored[m].match_score = scored[n].match_score
          /\ \A m, n \in 1..Len(scored) :
                m # n => scored[m].search_strategy # scored[n].search_strategy
          /\ \A n \in 1..Len(scored) :
                \/ scored[n].search_strategy = q
                \/ scored[n].search_strategy = quoted
                \/ << scored[n].search_strategy >> = _extract_acronym(q)

\* three variants return a result whose title equals the query: the entries
\* of the raw query and of the acronym variant carry the same score
C21_Witness ==
    /\ Called("score_results")
    /\ Len(unit_return.value) = 3
    /\ _normalize_string(unit_call.query)
          = _normalize_string(GetText(unit_call.result.title))
    /\ unit_return.value[3].search_strategy # unit_call.query
    /\ unit_return.value[3].match_score = unit_return.value[1].match_score
    /\ LET variant == unit_return.value[3].search_strategy
       IN _calculate_match_score(variant, Tested(variant, unit_call.result))
             # unit_return.value[3].match_score

NoRepeat(xs) == \A m, n \in 1..Len(xs) : xs[m] = xs[n] => m = n

\* C22: the variant list has no duplicate and no empty entry; it starts with
\* the raw query (when that is not empty) followed by the quoted variant, then
\* the derived acronym when it exists and differs from the earlier entries;
\* _expand_acronym yields nothing, so at most three variants are queried.
C22_VariantList ==
    Called("search_strategies") =>
       LET q == unit_call.query
           value == unit_return.value
           quoted == << "\"" >> \o q \o << "\"" >>
           firsts == IF q = << >> THEN << quoted >> ELSE << q, quoted >>
           acronym == unit_return.acronym
       IN /\ NoRepeat(value)
          /\ \A n \in 1..Len(value) : value[n] # << >>
          /\ Len(value) <= 3
          /\ unit_return.expansion = NoneStr
          /\ IF acronym # NoneStr /\ acronym[1] # q /\ acronym[1] # quoted
             THEN value = firsts \o acronym
             ELSE value = firsts

\* a two-word query: raw query, quoted query, acronym
C22_Witness ==
    /\ Called("search_strategies")
    /\ unit_call.query = Q_WORDS
    /\ Len(unit_return.value) = 3
    /\ unit_return.value[1] = unit_call.query
    /\ << unit_return.value[3] >> = unit_return.acronym

\* the first letters, upper-cased, of the alphabetic words longer than two
AcronymOfWords(text) ==
    LET long == SelectSeq(split(text), LAMBDA w : isalpha(w) /\ Len(w) > 2)
    IN [ n \in 1..Len(long) |-> UpperChar(long[n][1]) ]

FirstElement(texts) ==
    IF texts = << >> THEN NoneStr
    ELSE IF texts[1] = NoneStr \/ strip(texts[1][1]) = << >> THEN NoneStr
         ELSE Some(strip(texts[1][1]))

\* C27: for each field get_xml_metadata reports the value of the first
\* element in document order whose local name is the field; later elements
\* of the same name never determine the value.
C27_FirstElementOnly ==
    Called("get_xml_metadata") =>
       /\ unit_return.value.id = FirstElement(unit_call.body.ids)
       /\ unit_return.value.title = FirstElement(unit_call.body.title)
       /\ unit_return.value.startDate = FirstElement(unit_call.body.startDate)
       /\ unit_return.value.totalCost = FirstElement(unit_call.body.totalCost)

\* C29: the command line import_to_neo4j prints never contains the password,
\* with dry_run set or not.
C29_PasswordNotPrinted ==
    ( Called("import_to_neo4j") /\ unit_call.password # NoneStr
      /\ unit_call.password[1] # "" ) =>
       \A n \in 1..Len(unit_return.printed) :
          unit_return.printed[n] # unit_call.password[1]

\* C24: a batch run of n queries with a positive delay sleeps exactly n - 1
\* times, once after each query but the last, whether the query succeeded or
\* failed; there is no sleep before the first query or after the last.
C24_SleepsBetweenQueries ==
    (BatchOver /\ delay > 0) =>
       sleeps = [ n \in 1..(Len(project_names) - 1) |-> n ]

\* the same for the batch runs that return
C24_SleepsWhenReturned ==
    (pc = "done" /\ delay > 0) =>
       sleeps = [ n \in 1..(Len(project_names) - 1) |-> n ]

\* C25: in the full pipeline the graph build is started only after at least
\* one document was acquired, and the Neo4j import is attempted only after the
\* build exited with status 0; a build that exits non-zero or times out ends
\* the run with a non-zero status and no import.
C25_BuildThenImport ==
    /\ processes # << >> =>
          /\ ~collect_only
          /\ processes[1].name = "build"
          /\ batch_return.kind = "return"
          /\ batch_return.xml_files # << >>
          /\ results # << >>
    /\ \A n \in 1..Len(processes) :
          processes[n].name = "import" =>
             /\ n = 2
             /\ processes[1].outcome = "ok"
    /\ \A n \in 1..Len(processes) :
          (processes[n].name = "build" /\ processes[n].outcome # "ok") =>
             /\ exit_status = << 1 >>
             /\ Len(processes) = 1
             /\ pipeline_return.kind = "raised"

\* a build that exited 0 followed by an import
C25_Witness ==
    /\ Len(processes) = 2
    /\ processes[1] = [ name |-> "build", outcome |-> "ok" ]
    /\ processes[2].name = "import"
    /\ results # << >>

\* a build that timed out
C25_BuildFailed ==
    /\ processes = << [ name |-> "build", outcome |-> "timeout" ] >>
    /\ exit_status = << 1 >>

\* C26: calling download_project_xml again for an id, after a call that
\* succeeded and with the server returning the same body, succeeds with the
\* same path and leaves the file with the same content.
C26_RepeatedDownload ==
    \A m, n \in 1..Len(downloads) :
       ( /\ m < n
         /\ downloads[m].project_id = downloads[n].project_id
         /\ downloads[m].response = downloads[n].response
         /\ downloads[m].ok ) =>
          /\ downloads[n].ok
          /\ download_project_xml(downloads[n].project_id, downloads[n].response)
                = Some(downloads[m].project_id)
          /\ ( n = Len(downloads) /\ exit_status = NoneStr ) =>
                files[downloads[n].project_id] = downloads[m].response

\* the same id downloaded twice with the same body, the first call succeeding
C26_Witness ==
    /\ Len(downloads) = 2
    /\ downloads[1].ok
    /\ downloads[1].project_id = downloads[2].project_id
    /\ downloads[1].response = downloads[2].response
    /\ files[downloads[2].project_id] = downloads[1].response

\* the file a returned path names is there
Exists(path) ==
    IF path.dir = "temp_dir" THEN files[path.name] # NoFile
    ELSE archive[path.name] # NoFile

\* C30: every path collect_and_build_graph returns names a file that still
\* exists after the return, with cleanup_xml set or not.
C30_ReturnedPathsExist ==
    pipeline_return.kind = "return" =>
       \A n \in 1..Len(pipeline_return.xml_files) :
          Exists(pipeline_return.xml_files[n])

\* the same for the runs that archive the documents
C30_ArchivedPathsExist ==
    ( pipeline_return.kind = "return" /\ ~pipeline_return.cleanup_xml ) =>
       \A n \in 1..Len(pipeline_return.xml_files) :
          Exists(pipeline_return.xml_files[n])

C28_SingleLowCandidate ==
    /\ Returned
    /\ Len(sorted_results) = 1
    /\ sorted_results[1].match_score < matcher.threshold
    /\ project = sorted_results[1]

====
